---- MODULE Spec2Model ----
(***************************************************************************)
(* State-machine model of the drive backend's route handlers               *)
(* (src/src/index.ts): the files_folders and permissions tables, the       *)
(* "files" storage bucket, the NodeCache instance and the clock.           *)
(*                                                                         *)
(* Strings that the code concatenates are modelled structurally:           *)
(*   - a path is a sequence of components joined by "/";                   *)
(*   - a component is a pair <<ts, name>> standing for `${ts}_${name}`,    *)
(*     or for the bare name when ts = -1.                                  *)
(* The empty string and a missing body field are both falsy in the code    *)
(* and are modelled by "" (a scalar) or <<>> (a path).                     *)
(*                                                                         *)
(* A handler is a sequence of steps: each call of the table or of the      *)
(* bucket is a step of its own, and so is the continuation that answers.   *)
(* A call that fails leaves the table or the bucket as it was. Between     *)
(* two steps of one handler the steps of the others run. A handler that    *)
(* has not answered is a record of inflight, holding what it has read.     *)
(***************************************************************************)
EXTENDS Integers, Sequences, FiniteSets, Bags, TLC

VARIABLES
    files_folders,  \* table files_folders: sequence of rows, row i has id i
    storage,        \* bucket "files": the set of object keys that exist
    permissions,    \* table permissions: bag of rows
    cache,          \* NodeCache: key -> [v |-> value, t |-> expiry time]
    now,            \* the clock (Date.now(), in seconds)
    res,            \* the response to the last request
    snap,           \* history: per row, the row as it was when last trashed from live
    inflight        \* the handlers suspended at an await, in order of arrival

vars == <<files_folders, storage, permissions, cache, now, res, snap, inflight>>

----------------------------------------------------------------------------
(* Bounds of the model *)

MaxNodes == 2
MaxGrants == 2
MaxTicks == 2
MaxTotal == 25
MaxPage == 4
MaxLimit == 10
MaxInflight == 1
MaxRacers == 2

(* Program constants *)

stdTTL == 300

Principals == {"u1", "u2"}
Names == {"a.txt", "b.txt"}
NoFile == ""

Comp(t, n) == <<t, n>>
Plain(s) == <<-1, s>>
UserDir(u) == <<Plain(u)>>
NullPath == <<>>

(* parentFolderPath is any client string: missing, or a directory that    *)
(* happens to be u1's own directory.                                       *)
ParentPaths == {NullPath, UserDir("u1")}

FileIds == 1..(MaxNodes + 1)

ValidRoles == {"owner", "editor", "viewer"}
RoleInputs == ValidRoles \cup {"admin", ""}
TargetInputs == Principals \cup {""}

\* the clock advances in steps of two thirds of a TTL: an entry is met once
\* within its TTL and once beyond it
TickStep == (2 * stdTTL) \div 3

----------------------------------------------------------------------------
(* Responses *)

Resp(op, user, id, status, body) ==
    [op |-> op, user |-> user, id |-> id, status |-> status, body |-> body]

NoRow == [id |-> 0, user_id |-> "", name |-> "", path |-> NullPath,
          type |-> "", parent_path |-> NullPath, is_deleted |-> FALSE]

Rows == {files_folders[i] : i \in 1..Len(files_folders)}

\* the deletes and renames that arrived in a step of their own (race), and
\* the other suspended handlers
Racers == {i \in DOMAIN inflight :
              inflight[i].op \in {"delete", "rename"} /\ inflight[i].race}
Suspended == (DOMAIN inflight) \ Racers

\* inflight without its i-th handler (the handler has answered)
Remove(i) ==
    [j \in 1..(Len(inflight) - 1) |-> IF j < i THEN inflight[j] ELSE inflight[j + 1]]

Last(s) == s[Len(s)]

\* a delete or rename of the node at key, as it arrives. History: live, a
\* live row of the user has the path when the request arrives; rival, the
\* statuses answered to the requests on the same node that it overlapped;
\* race, the request arrived in a step of its own (DeleteSend, RenameSend)
Request(op, u, fileId, key, dst) ==
    [op |-> op, user |-> u, id |-> fileId, key |-> key, dst |-> dst, pc |-> "sent",
     data |-> {}, err |-> FALSE,
     live |-> \E r \in Rows : r.user_id = u /\ ~r.is_deleted /\ r.path = key,
     rival |-> {}, race |-> TRUE]

\* two requests in flight on the same node, live when each arrived
Racing(r, s) ==
    /\ r.op \in {"delete", "rename"}
    /\ s.op \in {"delete", "rename"}
    /\ r.user = s.user
    /\ r.key = s.key
    /\ r.live /\ s.live

\* request i is answered with status: it leaves inflight, and the requests
\* racing it note its status
Answer(i, status) ==
    LET noted == [j \in DOMAIN inflight |->
                    IF j # i /\ Racing(inflight[j], inflight[i])
                    THEN [inflight[j] EXCEPT !.rival = @ \cup {status}]
                    ELSE inflight[j]]
    IN [j \in 1..(Len(inflight) - 1) |-> IF j < i THEN noted[j] ELSE noted[j + 1]]

----------------------------------------------------------------------------
(* NodeCache *)

CacheKeyFiles(u) == <<"files", u>>

\* faulty variant: an entry is served for as long as it exists
CacheHitNoExpiry(k) == k \in DOMAIN cache

\* cache.get: a value only while the entry exists and has not expired
CacheHit(k) == k \in DOMAIN cache /\ ~(cache[k].t < now)

\* cache.set: the entry expires stdTTL after insertion
CacheSet(k, v) ==
    [x \in (DOMAIN cache) \cup {k} |->
        IF x = k THEN [v |-> v, t |-> now + stdTTL] ELSE cache[x]]

\* cache.get that finds no value: an entry of the key, being expired, is deleted
CacheDel(k) == [x \in (DOMAIN cache) \ {k} |-> cache[x]]

\* the entries that have expired
Expired == {k \in DOMAIN cache : cache[k].t < now}

----------------------------------------------------------------------------
Init ==
    /\ files_folders = <<>>
    /\ storage = {}
    /\ permissions = EmptyBag
    /\ cache = <<>>
    /\ now = 0
    /\ res = Resp("none", "", 0, 0, {})
    /\ snap = <<>>
    /\ inflight = <<>>

Tick ==
    /\ now + TickStep <= MaxTicks * TickStep
    /\ now' = now + TickStep
    /\ UNCHANGED <<files_folders, storage, permissions, cache, res, snap>>
    /\ UNCHANGED inflight

\* the periodic check of the cache (checkperiod): the expired entries are
\* deleted. The timer is the cache's own; when it fires between two requests
\* is left open.
CheckData ==
    /\ Expired # {}
    /\ cache' = [k \in (DOMAIN cache) \ Expired |-> cache[k]]
    /\ UNCHANGED <<files_folders, storage, permissions, now, res, snap, inflight>>

----------------------------------------------------------------------------
(* POST /upload *)

\* `${Date.now()}_${req.file.originalname}`
UploadFileName(file) == Comp(now, file)

\* parentFolderPath ? `${parentFolderPath}/${fileName}` : `${user.userId}/${fileName}`
UploadFilePath(u, file, parent) ==
    Append(IF parent # NullPath THEN parent ELSE UserDir(u), UploadFileName(file))

\* the record handed to insert(); id and is_deleted are filled in by the table
UploadRow(u, file, parent) ==
    [id |-> 0,
     user_id |-> u,
     name |-> file,
     path |-> UploadFilePath(u, file, parent),
     type |-> "file",
     parent_path |-> parent,
     is_deleted |-> FALSE]

\* the row as the table stores it: the next id
Inserted(r) == [r EXCEPT !.id = Len(files_folders) + 1]

\* storage.upload without upsert: refused when the key already holds an object
StorageUploadError(key) == key \in storage

\* the upload handlers whose row is not in the table yet
PendingUploads ==
    {i \in DOMAIN inflight : inflight[i].op = "upload" /\ inflight[i].pc # "inserted"}

\* the handler up to `await supabase.storage...upload(...)`: the check of
\* req.file, and the name and path built from the clock as it is now
UploadSend(u, file, parent) ==
    /\ IF file = NoFile
       THEN /\ res' = Resp("upload", u, 0, 400, NoRow)
            /\ UNCHANGED inflight
       ELSE /\ Cardinality(Suspended) < MaxInflight
            /\ Len(files_folders) + Cardinality(PendingUploads) < MaxNodes
            /\ inflight' = Append(inflight,
                                  [op |-> "upload", user |-> u, pc |-> "sent",
                                   err |-> FALSE,
                                   row |-> UploadRow(u, file, parent)])
            /\ UNCHANGED res
    /\ UNCHANGED <<files_folders, storage, permissions, cache, now, snap>>

\* the bucket carries out storage.upload, under the path fixed before the
\* await, or refuses it; error is a failure of the bucket other than a taken
\* key. The handler stays suspended
UploadStore(i, error) ==
    /\ inflight[i].op = "upload"
    /\ inflight[i].pc = "sent"
    /\ IF error \/ StorageUploadError(inflight[i].row.path)
       THEN /\ inflight' = [inflight EXCEPT ![i].pc = "stored", ![i].err = TRUE]
            /\ UNCHANGED storage
       ELSE /\ storage' = storage \cup {inflight[i].row.path}
            /\ inflight' = [inflight EXCEPT ![i].pc = "stored"]
    /\ UNCHANGED <<files_folders, permissions, cache, now, res, snap>>

\* what the handler answers from a call that has returned: 500 on its error,
\* else `File uploaded` with data[0]
UploadAnswer(r) ==
    IF r.err
    THEN Resp("upload", r.user, 0, 500, NoRow)
    ELSE Resp("upload", r.user, r.row.id, 200, r.row)

\* the continuation of storage.upload: if (uploadError) 500, else the insert
\* is issued
UploadStored(i) ==
    /\ inflight[i].op = "upload"
    /\ inflight[i].pc = "stored"
    /\ IF inflight[i].err
       THEN /\ res' = UploadAnswer(inflight[i])
            /\ inflight' = Remove(i)
       ELSE /\ inflight' = [inflight EXCEPT ![i].pc = "inserting"]
            /\ UNCHANGED res
    /\ UNCHANGED <<files_folders, storage, permissions, cache, now, snap>>

\* the table carries out the insert and returns the row (.select()); error is
\* a failure of the table, which leaves the rows as they are. The handler
\* stays suspended
UploadInsert(i, error) ==
    /\ inflight[i].op = "upload"
    /\ inflight[i].pc = "inserting"
    /\ IF error
       THEN /\ inflight' = [inflight EXCEPT ![i].pc = "inserted", ![i].err = TRUE]
            /\ UNCHANGED <<files_folders, snap>>
       ELSE /\ files_folders' = Append(files_folders, Inserted(inflight[i].row))
            /\ snap' = Append(snap, NoRow)
            /\ inflight' = [inflight EXCEPT ![i].pc = "inserted",
                                            ![i].row = Inserted(inflight[i].row)]
    /\ UNCHANGED <<storage, permissions, cache, now, res>>

\* the continuation of the insert answers: if (error) 500, else the row as
\* the insert returned it
UploadDone(i) ==
    /\ inflight[i].op = "upload"
    /\ inflight[i].pc = "inserted"
    /\ res' = UploadAnswer(inflight[i])
    /\ inflight' = Remove(i)
    /\ UNCHANGED <<files_folders, storage, permissions, cache, now, snap>>

----------------------------------------------------------------------------
(* GET /files *)

\* select('*').eq('user_id', u).eq('is_deleted', false)
LiveRowsOf(u) == {r \in Rows : r.user_id = u /\ r.is_deleted = FALSE}

\* the handler up to `await supabase...select('*')...`: cache.get and, on a
\* hit, the answer. History: expired, cache.get found an expired entry
FilesSend(u) ==
    /\ IF CacheHit(CacheKeyFiles(u))
       THEN /\ res' = Resp("files", u, 0, 200, cache[CacheKeyFiles(u)].v)
            /\ UNCHANGED <<inflight, cache>>
       ELSE /\ Cardinality(Suspended) < MaxInflight
            /\ cache' = CacheDel(CacheKeyFiles(u))
            /\ inflight' = Append(inflight,
                                  [op |-> "files", user |-> u, pc |-> "sent",
                                   data |-> {}, err |-> FALSE,
                                   expired |-> CacheKeyFiles(u) \in DOMAIN cache])
            /\ UNCHANGED res
    /\ UNCHANGED <<files_folders, storage, permissions, now, snap>>

\* the select runs; error is a failure of the table
FilesRead(i, error) ==
    /\ inflight[i].op = "files"
    /\ inflight[i].pc = "sent"
    /\ inflight' = [inflight EXCEPT
                       ![i].pc = "read",
                       ![i].err = error,
                       ![i].data = IF error THEN {} ELSE LiveRowsOf(inflight[i].user)]
    /\ UNCHANGED <<files_folders, storage, permissions, cache, now, res, snap>>

\* the continuation: the check of the answer, cache.set(cacheKey, data), res.json
FilesDone(i) ==
    /\ inflight[i].op = "files"
    /\ inflight[i].pc = "read"
    /\ IF inflight[i].err
       THEN /\ res' = Resp("files", inflight[i].user, 0, 500, {})
            /\ UNCHANGED cache
       ELSE /\ cache' = CacheSet(CacheKeyFiles(inflight[i].user), inflight[i].data)
            /\ res' = Resp("files", inflight[i].user, 0, 200, inflight[i].data)
    /\ inflight' = Remove(i)
    /\ UNCHANGED <<files_folders, storage, permissions, now, snap>>

----------------------------------------------------------------------------
(* DELETE /delete/:fileId and POST /restore/:fileId *)

\* faulty variant: the user_id filter is dropped
DeleteMatchAnyUser(fileId, u) ==
    {i \in 1..Len(files_folders) : files_folders[i].id = fileId}

\* faulty variant: the update also reaches the rows filed under the matched row
DeleteMatchCascade(fileId, u) ==
    {i \in 1..Len(files_folders) :
        \/ files_folders[i].id = fileId /\ files_folders[i].user_id = u
        \/ \E j \in 1..Len(files_folders) :
              /\ files_folders[j].id = fileId /\ files_folders[j].user_id = u
              /\ files_folders[i].parent_path = files_folders[j].path}

\* DELETE: .eq('id', fileId).eq('user_id', user.userId)
DeleteMatch(fileId, u) ==
    {i \in 1..Len(files_folders) :
        files_folders[i].id = fileId /\ files_folders[i].user_id = u}

\* POST restore: .eq('id', fileId).eq('user_id', user.userId)
RestoreMatch(fileId, u) ==
    {i \in 1..Len(files_folders) :
        files_folders[i].id = fileId /\ files_folders[i].user_id = u}

\* .update({ is_deleted: true })
DeletePatch(r) == [r EXCEPT !.is_deleted = TRUE]

\* faulty variant: restoring also detaches the row from its folder
RestorePatchDetach(r) == [r EXCEPT !.is_deleted = FALSE, !.parent_path = NullPath]

\* .update({ is_deleted: false })
RestorePatch(r) == [r EXCEPT !.is_deleted = FALSE]

\* data[0] of the rows an update returns: the first in the order of the table
First(data) == CHOOSE r \in data : \A s \in data : r.id <= s.id

\* .select() of the delete: the matched rows as updated; none when the table fails
DeleteData(u, fileId, error) ==
    IF error THEN {}
    ELSE {DeletePatch(files_folders[i]) : i \in DeleteMatch(fileId, u)}

\* the update of the delete runs; error is a failure of the table, which
\* leaves the rows as they are. History: snap
DeleteUpdate(u, fileId, error) ==
    /\ files_folders' =
         [i \in 1..Len(files_folders) |->
            IF ~error /\ i \in DeleteMatch(fileId, u)
            THEN DeletePatch(files_folders[i]) ELSE files_folders[i]]
    /\ snap' =
         [i \in 1..Len(snap) |->
            IF ~error /\ i \in DeleteMatch(fileId, u) /\ ~files_folders[i].is_deleted
            THEN files_folders[i] ELSE snap[i]]
    /\ UNCHANGED <<storage, permissions, cache, now, res>>

\* the path of the row a delete addresses, if there is one
DeleteKey(fileId, u) ==
    IF DeleteMatch(fileId, u) = {} THEN NullPath ELSE files_folders[fileId].path

\* the handler up to the return of `await supabase...update(...).select()`:
\* nothing is read before the update runs
Delete(u, fileId, error) ==
    /\ Cardinality(Suspended) < MaxInflight
    /\ DeleteUpdate(u, fileId, error)
    /\ inflight' = Append(inflight,
          [Request("delete", u, fileId, DeleteKey(fileId, u), NullPath) EXCEPT
              !.pc = "updated",
              !.err = error,
              !.data = DeleteData(u, fileId, error),
              !.race = FALSE])

\* the same handler with its arrival as a step of its own, to tell apart two
\* requests that are in flight together
DeleteSend(u, fileId) ==
    /\ Cardinality(Racers) < MaxRacers
    /\ inflight' = Append(inflight,
                          Request("delete", u, fileId, DeleteKey(fileId, u), NullPath))
    /\ UNCHANGED <<files_folders, storage, permissions, cache, now, res, snap>>

DeleteExec(i, error) ==
    /\ inflight[i].op = "delete"
    /\ inflight[i].pc = "sent"
    /\ DeleteUpdate(inflight[i].user, inflight[i].id, error)
    /\ inflight' = [inflight EXCEPT
                       ![i].pc = "updated",
                       ![i].err = error,
                       ![i].data = DeleteData(inflight[i].user, inflight[i].id, error)]

\* if (error || !data.length) 404, else `Moved to trash` with data[0]
DeleteAnswer(r) ==
    IF r.err \/ r.data = {}
    THEN Resp("delete", r.user, r.id, 404, NoRow)
    ELSE Resp("delete", r.user, r.id, 200, First(r.data))

\* the continuation of the delete answers
DeleteDone(i) ==
    /\ inflight[i].op = "delete"
    /\ inflight[i].pc = "updated"
    /\ res' = DeleteAnswer(inflight[i])
    /\ inflight' = Answer(i, DeleteAnswer(inflight[i]).status)
    /\ UNCHANGED <<files_folders, storage, permissions, cache, now, snap>>

\* .select() of the restore: the matched rows as updated; none when the table fails
RestoreData(u, fileId, error) ==
    IF error THEN {}
    ELSE {RestorePatch(files_folders[i]) : i \in RestoreMatch(fileId, u)}

\* the handler up to the return of `await supabase...update(...).select()`;
\* error is a failure of the table, which leaves the rows as they are
Restore(u, fileId, error) ==
    /\ Cardinality(Suspended) < MaxInflight
    /\ files_folders' =
         [i \in 1..Len(files_folders) |->
            IF ~error /\ i \in RestoreMatch(fileId, u)
            THEN RestorePatch(files_folders[i]) ELSE files_folders[i]]
    /\ inflight' = Append(inflight,
                          [op |-> "restore", user |-> u, id |-> fileId,
                           pc |-> "updated", err |-> error,
                           data |-> RestoreData(u, fileId, error)])
    /\ UNCHANGED <<storage, permissions, cache, now, res, snap>>

\* if (error || !data.length) 404, else `Restored from trash` with data[0]
RestoreAnswer(r) ==
    IF r.err \/ r.data = {}
    THEN Resp("restore", r.user, r.id, 404, NoRow)
    ELSE Resp("restore", r.user, r.id, 200, First(r.data))

\* the continuation of the restore answers
RestoreDone(i) ==
    /\ inflight[i].op = "restore"
    /\ res' = RestoreAnswer(inflight[i])
    /\ inflight' = Remove(i)
    /\ UNCHANGED <<files_folders, storage, permissions, cache, now, snap>>

----------------------------------------------------------------------------
(* POST /share/:fileId *)

\* faulty variant: the user_id filter is dropped
ShareSelectAnyUser(fileId, u) == {r \in Rows : r.id = fileId}

\* .select('path, type').eq('id', fileId).eq('user_id', user.userId)
ShareSelect(fileId, u) ==
    {r \in Rows : r.id = fileId /\ r.user_id = u}

\* faulty variant: a folder is shared by its own path
ShareKeyPathOnly(r) == r.path

\* fileData.type === 'folder' ? `${fileData.path}/.keep` : fileData.path
ShareKey(r) == IF r.type = "folder" THEN Append(r.path, Plain(".keep")) ELSE r.path

\* storage.createSignedUrl: refused when no object has the key
SignedUrlError(key) == key \notin storage

\* the handler up to the return of `await supabase...select(...).single()`;
\* error is a failure of the table; .single() fails unless one row matches
ShareRead(u, fileId, error) ==
    /\ Cardinality(Suspended) < MaxInflight
    /\ inflight' = Append(inflight,
          [op |-> "share", user |-> u, id |-> fileId, pc |-> "selected",
           err |-> error,
           data |-> IF error \/ Cardinality(ShareSelect(fileId, u)) # 1
                    THEN {} ELSE ShareSelect(fileId, u),
           key |-> NullPath])
    /\ UNCHANGED <<files_folders, storage, permissions, cache, now, res, snap>>

\* the continuation of the select: if (fileError || !fileData) 404; else the
\* key and createSignedUrl, which runs; error is a failure of the bucket
ShareSign(i, error) ==
    /\ inflight[i].op = "share"
    /\ inflight[i].pc = "selected"
    /\ IF inflight[i].err \/ inflight[i].data = {}
       THEN /\ res' = Resp("share", inflight[i].user, inflight[i].id, 404, NullPath)
            /\ inflight' = Remove(i)
       ELSE /\ inflight' = [inflight EXCEPT
                   ![i].pc = "signed",
                   ![i].key = ShareKey(First(inflight[i].data)),
                   ![i].err = error \/ SignedUrlError(ShareKey(First(inflight[i].data)))]
            /\ UNCHANGED res
    /\ UNCHANGED <<files_folders, storage, permissions, cache, now, snap>>

\* the continuation of createSignedUrl: if (error) 500, else the link (body:
\* the key it was signed for)
ShareDone(i) ==
    /\ inflight[i].op = "share"
    /\ inflight[i].pc = "signed"
    /\ res' = Resp("share", inflight[i].user, inflight[i].id,
                   IF inflight[i].err THEN 500 ELSE 200,
                   inflight[i].key)
    /\ inflight' = Remove(i)
    /\ UNCHANGED <<files_folders, storage, permissions, cache, now, snap>>

----------------------------------------------------------------------------
(* PUT /rename/:fileName *)

\* `${user.userId}/${req.params.fileName}` and `${user.userId}/${newFileName}`
RenameKey(u, fileName) == Append(UserDir(u), fileName)

\* storage.move: refused when the source is missing or the destination exists
MoveError(old, new) == old \notin storage \/ new \in storage

\* storage.move runs; error is a failure of the bucket other than a refusal,
\* which leaves the objects as they are
RenameMove(old, new, error) ==
    /\ storage' = IF error \/ MoveError(old, new)
                  THEN storage
                  ELSE (storage \ {old}) \cup {new}
    /\ UNCHANGED <<files_folders, permissions, cache, now, snap>>

\* the handler up to the return of `await supabase.storage...move(...)`: the
\* check of newFileName (400), the two keys and the move
Rename(u, fileName, newFileName, error) ==
    /\ IF newFileName = Plain("")
       THEN /\ res' = Resp("rename", u, 0, 400, NullPath)
            /\ UNCHANGED <<storage, inflight>>
            /\ UNCHANGED <<files_folders, permissions, cache, now, snap>>
       ELSE /\ Cardinality(Suspended) < MaxInflight
            /\ RenameMove(RenameKey(u, fileName), RenameKey(u, newFileName), error)
            /\ inflight' = Append(inflight,
                  [Request("rename", u, 0, RenameKey(u, fileName),
                           RenameKey(u, newFileName)) EXCEPT
                      !.pc = "moved",
                      !.err = error \/ MoveError(RenameKey(u, fileName),
                                                 RenameKey(u, newFileName)),
                      !.race = FALSE])
            /\ UNCHANGED res

\* the same handler with its arrival as a step of its own, to tell apart two
\* requests that are in flight together
RenameSend(u, fileName, newFileName) ==
    /\ Cardinality(Racers) < MaxRacers
    /\ newFileName # Plain("")
    /\ inflight' = Append(inflight,
                          Request("rename", u, 0, RenameKey(u, fileName),
                                  RenameKey(u, newFileName)))
    /\ UNCHANGED <<files_folders, storage, permissions, cache, now, res, snap>>

RenameExec(i, error) ==
    /\ inflight[i].op = "rename"
    /\ inflight[i].pc = "sent"
    /\ RenameMove(inflight[i].key, inflight[i].dst, error)
    /\ inflight' = [inflight EXCEPT
                       ![i].pc = "moved",
                       ![i].err = error \/ MoveError(inflight[i].key, inflight[i].dst)]
    /\ UNCHANGED res

\* if (error) 500, else `File renamed`
RenameAnswer(r) ==
    IF r.err
    THEN Resp("rename", r.user, 0, 500, NullPath)
    ELSE Resp("rename", r.user, 0, 200, r.dst)

\* the continuation of the move answers
RenameDone(i) ==
    /\ inflight[i].op = "rename"
    /\ inflight[i].pc = "moved"
    /\ res' = RenameAnswer(inflight[i])
    /\ inflight' = Answer(i, RenameAnswer(inflight[i]).status)
    /\ UNCHANGED <<files_folders, storage, permissions, cache, now, snap>>

\* file names a client can put in the URL: those of u's objects, or a new one
RenameNames(u) ==
    {k[2] : k \in {x \in storage : Len(x) = 2 /\ x[1] = Plain(u)}} \cup {Plain("b.txt")}

----------------------------------------------------------------------------
(* /permissions/:fileId -- the permissions table is a bag of rows *)

Grant(fileId, target, role) == [file_id |-> fileId, user_id |-> target, role |-> role]

\* faulty variant: only the presence of the two fields is checked
InvalidGrantInputPresence(target, role) == target = "" \/ role = ""

\* !targetUserId || !role || !['owner', 'editor', 'viewer'].includes(role)
InvalidGrantInput(target, role) ==
    target = "" \/ role = "" \/ role \notin ValidRoles

\* .eq('file_id', fileId).eq('user_id', targetUserId)
GrantMatch(fileId, target) ==
    {g \in DOMAIN permissions : g.file_id = fileId /\ g.user_id = target}

GrantRest(fileId, target) ==
    [g \in (DOMAIN permissions) \ GrantMatch(fileId, target) |-> permissions[g]]

GrantMatchCount(fileId, target) ==
    BagCardinality(permissions) - BagCardinality(GrantRest(fileId, target))

\* a /permissions handler that awaits the table; found: data.length > 0
GrantRequest(op, u, fileId, target, role, error, found) ==
    [op |-> op, user |-> u, id |-> fileId, pc |-> "stored",
     grant |-> Grant(fileId, target, role), err |-> error, found |-> found]

\* POST up to the return of `await supabase...insert(...)`: the check of the
\* body (400) and the insert of one row; error is what the table answers
\* instead (the table's constraints are not part of the repository, so both
\* outcomes are modelled)
PermissionsPost(u, fileId, target, role, error) ==
    /\ IF InvalidGrantInput(target, role)
       THEN /\ res' = Resp("permPost", u, fileId, 400, Grant(fileId, target, role))
            /\ UNCHANGED <<permissions, inflight>>
       ELSE /\ Cardinality(Suspended) < MaxInflight
            /\ error \/ BagCardinality(permissions) < MaxGrants
            /\ permissions' = IF error THEN permissions
                              ELSE permissions (+) SetToBag({Grant(fileId, target, role)})
            /\ inflight' = Append(inflight,
                  GrantRequest("permPost", u, fileId, target, role, error, ~error))
            /\ UNCHANGED res
    /\ UNCHANGED <<files_folders, storage, cache, now, snap>>

\* PUT up to the return of `await supabase...update({ role })...`: the check
\* of the body (400) and the update of the matching rows; error is a failure
\* of the table
PermissionsPut(u, fileId, target, role, error) ==
    /\ IF InvalidGrantInput(target, role)
       THEN /\ res' = Resp("permPut", u, fileId, 400, Grant(fileId, target, role))
            /\ UNCHANGED <<permissions, inflight>>
       ELSE /\ Cardinality(Suspended) < MaxInflight
            /\ permissions' =
                 IF error \/ GrantMatch(fileId, target) = {}
                 THEN permissions
                 ELSE GrantRest(fileId, target) (+)
                      [g \in {Grant(fileId, target, role)} |->
                          GrantMatchCount(fileId, target)]
            /\ inflight' = Append(inflight,
                  GrantRequest("permPut", u, fileId, target, role, error,
                               ~error /\ GrantMatch(fileId, target) # {}))
            /\ UNCHANGED res
    /\ UNCHANGED <<files_folders, storage, cache, now, snap>>

\* DELETE up to the return of `await supabase...delete()...`: the check of
\* the body (400) and the removal of the matching rows; error is a failure of
\* the table
PermissionsDelete(u, fileId, target, error) ==
    /\ IF target = ""
       THEN /\ res' = Resp("permDelete", u, fileId, 400, Grant(fileId, target, ""))
            /\ UNCHANGED <<permissions, inflight>>
       ELSE /\ Cardinality(Suspended) < MaxInflight
            /\ permissions' = IF error THEN permissions ELSE GrantRest(fileId, target)
            /\ inflight' = Append(inflight,
                  GrantRequest("permDelete", u, fileId, target, "", error,
                               ~error /\ GrantMatch(fileId, target) # {}))
            /\ UNCHANGED res
    /\ UNCHANGED <<files_folders, storage, cache, now, snap>>

\* POST: if (error) 400; PUT and DELETE: if (error || !data.length) 404;
\* else 200 with the grant
PermissionsAnswer(r) ==
    Resp(r.op, r.user, r.id,
         IF r.op = "permPost"
         THEN (IF r.err THEN 400 ELSE 200)
         ELSE (IF r.err \/ ~r.found THEN 404 ELSE 200),
         r.grant)

\* the continuation of a /permissions handler answers
PermissionsDone(i) ==
    /\ inflight[i].op \in {"permPost", "permPut", "permDelete"}
    /\ res' = PermissionsAnswer(inflight[i])
    /\ inflight' = Remove(i)
    /\ UNCHANGED <<files_folders, storage, permissions, cache, now, snap>>

----------------------------------------------------------------------------
(* GET /search *)

\* the pieces of a string between its "_" characters (user ids hold none)
Tokens(s) == IF s = "a_1" THEN <<"a", "1">> ELSE <<s>>

\* faulty variant: the key leaves the user out
CacheKeySearchShared(u, q, page, limit) ==
    <<"search">> \o Tokens(q) \o <<ToString(page), ToString(limit)>>

\* `search_${user.userId}_${query}_${page}_${limit}`
CacheKeySearch(u, q, page, limit) ==
    <<"search">> \o Tokens(u) \o Tokens(q) \o <<ToString(page), ToString(limit)>>

\* the query strings of the model that a string contains (ilike '%q%')
SubstringsOf(s) ==
    CASE s = "a.txt" -> {"a", "txt"}
      [] s = "b.txt" -> {"b", "txt"}
      [] OTHER -> {}

PathHas(path, q) == \E i \in 1..Len(path) : q \in SubstringsOf(path[i][2])

\* .eq('user_id', u).eq('is_deleted', false).ilike('name', q).or(path.ilike q)
SearchFilter(r, u, q) ==
    /\ r.user_id = u
    /\ r.is_deleted = FALSE
    /\ q \in SubstringsOf(r.name)
    /\ PathHas(r.path, q)

\* the matching rows, in the order of the table
SearchMatches(u, q) == SelectSeq(files_folders, LAMBDA r : SearchFilter(r, u, q))

\* (Number(page) - 1) * Number(limit)
SearchOffset(page, limit) == (page - 1) * limit

\* faulty variant: the last row of the page is left out
SearchRangeExclusive(matches, from, to) ==
    SubSeq(matches, from + 1, IF to < Len(matches) THEN to ELSE Len(matches))

\* .range(from, to): the rows at the 0-based positions from..to, both included
SearchRange(matches, from, to) ==
    SubSeq(matches, from + 1, IF to + 1 < Len(matches) THEN to + 1 ELSE Len(matches))

\* Math.ceil(count / Number(limit))
SearchTotalPages(count, limit) ==
    IF count % limit = 0 THEN count \div limit ELSE (count \div limit) + 1

\* the response object built from the rows the query matches
SearchResponse(matches, page, limit) ==
    [items |-> SearchRange(matches, SearchOffset(page, limit),
                           SearchOffset(page, limit) + limit - 1),
     total |-> Len(matches),
     page |-> page,
     limit |-> limit,
     totalPages |-> SearchTotalPages(Len(matches), limit)]

\* the handler up to `await supabase...range(...)`: the check of the query,
\* cache.get and, on a hit, the answer. History: expired, cache.get found an
\* expired entry
SearchSend(u, q, page, limit) ==
    /\ IF q = ""
       THEN /\ res' = Resp("search", u, 0, 400, <<>>)
            /\ UNCHANGED <<inflight, cache>>
       ELSE IF CacheHit(CacheKeySearch(u, q, page, limit))
       THEN /\ res' = Resp("search", u, 0, 200, cache[CacheKeySearch(u, q, page, limit)].v)
            /\ UNCHANGED <<inflight, cache>>
       ELSE /\ Cardinality(Suspended) < MaxInflight
            /\ cache' = CacheDel(CacheKeySearch(u, q, page, limit))
            /\ inflight' = Append(inflight,
                  [op |-> "search", user |-> u, q |-> q, page |-> page,
                   limit |-> limit, pc |-> "sent", data |-> <<>>, err |-> FALSE,
                   expired |-> CacheKeySearch(u, q, page, limit) \in DOMAIN cache])
            /\ UNCHANGED res
    /\ UNCHANGED <<files_folders, storage, permissions, now, snap>>

\* the select runs; error is a failure of the table (a refused range included)
SearchRead(i, error) ==
    /\ inflight[i].op = "search"
    /\ inflight[i].pc = "sent"
    /\ inflight' = [inflight EXCEPT
                       ![i].pc = "read",
                       ![i].err = error,
                       ![i].data = IF error THEN <<>>
                                   ELSE SearchResponse(
                                          SearchMatches(inflight[i].user, inflight[i].q),
                                          inflight[i].page, inflight[i].limit)]
    /\ UNCHANGED <<files_folders, storage, permissions, cache, now, res, snap>>

\* the continuation: the check of the answer, cache.set(cacheKey, response), res.json
SearchDone(i) ==
    /\ inflight[i].op = "search"
    /\ inflight[i].pc = "read"
    /\ IF inflight[i].err
       THEN /\ res' = Resp("search", inflight[i].user, 0, 500, <<>>)
            /\ UNCHANGED cache
       ELSE /\ cache' = CacheSet(CacheKeySearch(inflight[i].user, inflight[i].q,
                                                inflight[i].page, inflight[i].limit),
                                 inflight[i].data)
            /\ res' = Resp("search", inflight[i].user, 0, 200, inflight[i].data)
    /\ inflight' = Remove(i)
    /\ UNCHANGED <<files_folders, storage, permissions, now, snap>>

\* Pagination alone: one search of the query "a" on a cache miss, over a
\* table whose matching records are 1..total; error is a failure of the table
Records(total) == [i \in 1..total |-> i]

PageQuery(total, page, limit) == [total |-> total, page |-> page, limit |-> limit]

Paginate(error) ==
    /\ res.op = "query"
    /\ IF error
       THEN /\ res' = Resp("search", res.user, 0, 500, <<>>)
            /\ UNCHANGED cache
       ELSE /\ cache' = CacheSet(CacheKeySearch(res.user, "a", res.body.page, res.body.limit),
                                 SearchResponse(Records(res.body.total),
                                                res.body.page, res.body.limit))
            /\ res' = Resp("search", res.user, 0, 200,
                           SearchResponse(Records(res.body.total),
                                          res.body.page, res.body.limit))
    /\ UNCHANGED <<files_folders, storage, permissions, now, snap, inflight>>

----------------------------------------------------------------------------
(* Specifications *)

\* The listing cache: u1 uploads, lists, trashes and restores; time passes.
Next ==
    \/ Tick
    \/ CheckData
    \/ \E f \in {"a.txt", NoFile} : UploadSend("u1", f, NullPath)
    \/ \E i \in DOMAIN inflight, e \in BOOLEAN : UploadStore(i, e)
    \/ \E i \in DOMAIN inflight : UploadStored(i)
    \/ \E i \in DOMAIN inflight, e \in BOOLEAN : UploadInsert(i, e)
    \/ \E i \in DOMAIN inflight : UploadDone(i)
    \/ FilesSend("u1")
    \/ \E i \in DOMAIN inflight, e \in BOOLEAN : FilesRead(i, e)
    \/ \E i \in DOMAIN inflight : FilesDone(i)
    \/ \E id \in FileIds, e \in BOOLEAN : Delete("u1", id, e)
    \/ \E i \in DOMAIN inflight : DeleteDone(i)
    \/ \E id \in FileIds, e \in BOOLEAN : Restore("u1", id, e)
    \/ \E i \in DOMAIN inflight : RestoreDone(i)

Spec == Init /\ [][Next]_vars

\* Trash and restore alone, over every upload input.
NextTrash ==
    \/ \E u \in Principals, f \in Names, p \in ParentPaths : UploadSend(u, f, p)
    \/ \E i \in DOMAIN inflight, e \in BOOLEAN : UploadStore(i, e)
    \/ \E i \in DOMAIN inflight : UploadStored(i)
    \/ \E i \in DOMAIN inflight, e \in BOOLEAN : UploadInsert(i, e)
    \/ \E i \in DOMAIN inflight : UploadDone(i)
    \/ \E u \in Principals, id \in FileIds, e \in BOOLEAN : Delete(u, id, e)
    \/ \E i \in DOMAIN inflight : DeleteDone(i)
    \/ \E u \in Principals, id \in FileIds, e \in BOOLEAN : Restore(u, id, e)
    \/ \E i \in DOMAIN inflight : RestoreDone(i)

SpecTrash == Init /\ [][NextTrash]_vars

\* The round trip through the trash: u1 uploads a file, into a directory or
\* beside it; every principal trashes and restores, and the table may fail.
NextRestore ==
    \/ \E p \in ParentPaths : UploadSend("u1", "a.txt", p)
    \/ \E i \in DOMAIN inflight : UploadStore(i, FALSE)
    \/ \E i \in DOMAIN inflight : UploadStored(i)
    \/ \E i \in DOMAIN inflight : UploadInsert(i, FALSE)
    \/ \E i \in DOMAIN inflight : UploadDone(i)
    \/ \E u \in Principals, id \in FileIds, e \in BOOLEAN : Delete(u, id, e)
    \/ \E i \in DOMAIN inflight : DeleteDone(i)
    \/ \E u \in Principals, id \in FileIds, e \in BOOLEAN : Restore(u, id, e)
    \/ \E i \in DOMAIN inflight : RestoreDone(i)

SpecRestore == Init /\ [][NextRestore]_vars

\* Nodes and their objects: create, softDelete, restore and rename.
NextNodes ==
    \/ \E u \in Principals, p \in ParentPaths : UploadSend(u, "a.txt", p)
    \/ \E i \in DOMAIN inflight, e \in BOOLEAN : UploadStore(i, e)
    \/ \E i \in DOMAIN inflight : UploadStored(i)
    \/ \E i \in DOMAIN inflight, e \in BOOLEAN : UploadInsert(i, e)
    \/ \E i \in DOMAIN inflight : UploadDone(i)
    \/ \E u \in Principals, id \in FileIds, e \in BOOLEAN : Delete(u, id, e)
    \/ \E i \in DOMAIN inflight : DeleteDone(i)
    \/ \E u \in Principals, id \in FileIds, e \in BOOLEAN : Restore(u, id, e)
    \/ \E i \in DOMAIN inflight : RestoreDone(i)
    \/ \E u \in Principals : \E a \in RenameNames(u), b \in RenameNames(u) \cup {Plain("")},
          e \in BOOLEAN : Rename(u, a, b, e)
    \/ \E i \in DOMAIN inflight : RenameDone(i)

SpecNodes == Init /\ [][NextNodes]_vars

\* The cache over time: u1 uploads, lists and searches.
NextTtl ==
    \/ Tick
    \/ CheckData
    \/ UploadSend("u1", "a.txt", NullPath)
    \/ \E i \in DOMAIN inflight, e \in BOOLEAN : UploadStore(i, e)
    \/ \E i \in DOMAIN inflight : UploadStored(i)
    \/ \E i \in DOMAIN inflight : UploadInsert(i, FALSE)
    \/ \E i \in DOMAIN inflight : UploadDone(i)
    \/ FilesSend("u1")
    \/ \E i \in DOMAIN inflight, e \in BOOLEAN : FilesRead(i, e)
    \/ \E i \in DOMAIN inflight : FilesDone(i)
    \/ \E q \in {"a", ""} : SearchSend("u1", q, 1, 1)
    \/ \E i \in DOMAIN inflight, e \in BOOLEAN : SearchRead(i, e)
    \/ \E i \in DOMAIN inflight : SearchDone(i)

SpecTtl == Init /\ [][NextTtl]_vars

\* Listings and searches of both principals, each of which has uploaded one
\* file, across the expiry of the entries; every principal trashes u1's file.
\* The table answers the reads.
SearchQueries == {"a"}

InitSearch ==
    /\ now = 0
    /\ files_folders = <<[UploadRow("u1", "a.txt", NullPath) EXCEPT !.id = 1],
                         [UploadRow("u2", "a.txt", NullPath) EXCEPT !.id = 2]>>
    /\ storage = {UploadFilePath("u1", "a.txt", NullPath),
                  UploadFilePath("u2", "a.txt", NullPath)}
    /\ permissions = EmptyBag
    /\ cache = <<>>
    /\ res = Resp("none", "", 0, 0, {})
    /\ snap = <<NoRow, NoRow>>
    /\ inflight = <<>>

NextSearch ==
    \/ Tick
    \/ CheckData
    \/ \E u \in Principals : FilesSend(u)
    \/ \E i \in DOMAIN inflight : FilesRead(i, FALSE)
    \/ \E i \in DOMAIN inflight : FilesDone(i)
    \/ \E u \in Principals, q \in SearchQueries : SearchSend(u, q, 1, 1)
    \/ \E i \in DOMAIN inflight : SearchRead(i, FALSE)
    \/ \E i \in DOMAIN inflight : SearchDone(i)
    \/ \E u \in Principals : Delete(u, 1, FALSE)
    \/ \E i \in DOMAIN inflight : DeleteDone(i)

SpecSearch == InitSearch /\ [][NextSearch]_vars

\* Concurrent requests of u1 on one file: deletes and renames that are in
\* flight together, and listings suspended around them. The table and the
\* bucket carry out the deletes, the renames and the uploads.
NextRace ==
    \/ UploadSend("u1", "a.txt", NullPath)
    \/ \E i \in DOMAIN inflight : UploadStore(i, FALSE)
    \/ \E i \in DOMAIN inflight : UploadStored(i)
    \/ \E i \in DOMAIN inflight : UploadInsert(i, FALSE)
    \/ \E i \in DOMAIN inflight : UploadDone(i)
    \/ \E id \in DOMAIN files_folders : DeleteSend("u1", id)
    \/ \E a \in RenameNames("u1"), b \in RenameNames("u1") : RenameSend("u1", a, b)
    \/ \E i \in DOMAIN inflight : DeleteExec(i, FALSE)
    \/ \E i \in DOMAIN inflight : RenameExec(i, FALSE)
    \/ \E i \in DOMAIN inflight : DeleteDone(i)
    \/ \E i \in DOMAIN inflight : RenameDone(i)
    \/ FilesSend("u1")
    \/ \E i \in DOMAIN inflight, e \in BOOLEAN : FilesRead(i, e)
    \/ \E i \in DOMAIN inflight : FilesDone(i)
    \/ SearchSend("u1", "a", 1, 1)
    \/ \E i \in DOMAIN inflight, e \in BOOLEAN : SearchRead(i, e)
    \/ \E i \in DOMAIN inflight : SearchDone(i)

SpecRace == Init /\ [][NextRace]_vars

\* Grants: the owner u1 uploads one file; every principal writes and removes
\* grants on it, and the table may fail the requests that reach it.

\* the roles sent: two that are valid and one that is not
AclRoles == {"owner", "viewer", "admin"}

\* the principals named as the grantee: the one that does not own the node,
\* and a missing one
AclTargets == {"u2", ""}

NextAcl ==
    \/ UploadSend("u1", "a.txt", NullPath)
    \/ \E i \in DOMAIN inflight : UploadStore(i, FALSE)
    \/ \E i \in DOMAIN inflight : UploadStored(i)
    \/ \E i \in DOMAIN inflight : UploadInsert(i, FALSE)
    \/ \E i \in DOMAIN inflight : UploadDone(i)
    \/ \E u \in Principals, id \in DOMAIN files_folders, t \in AclTargets,
          r \in AclRoles, e \in BOOLEAN :
          (e => ~InvalidGrantInput(t, r)) /\ PermissionsPost(u, id, t, r, e)
    \/ \E u \in Principals, id \in DOMAIN files_folders, t \in AclTargets,
          r \in AclRoles, e \in BOOLEAN :
          (e => ~InvalidGrantInput(t, r)) /\ PermissionsPut(u, id, t, r, e)
    \/ \E u \in Principals, id \in DOMAIN files_folders, t \in AclTargets,
          e \in BOOLEAN : (e => t # "") /\ PermissionsDelete(u, id, t, e)
    \/ \E i \in DOMAIN inflight : PermissionsDone(i)

SpecAcl == Init /\ [][NextAcl]_vars

\* Access control: the owner u1 uploads one file and grants u2 a role on it;
\* every principal deletes and shares it, or an id that names no row, and
\* the table and the bucket may fail.
AclIds == 1..(Len(files_folders) + 1)

NextGate ==
    \/ UploadSend("u1", "a.txt", NullPath)
    \/ \E i \in DOMAIN inflight : UploadStore(i, FALSE)
    \/ \E i \in DOMAIN inflight : UploadStored(i)
    \/ \E i \in DOMAIN inflight : UploadInsert(i, FALSE)
    \/ \E i \in DOMAIN inflight : UploadDone(i)
    \/ \E id \in DOMAIN files_folders, r \in {"owner", "viewer"} :
          PermissionsPost("u1", id, "u2", r, FALSE)
    \/ \E i \in DOMAIN inflight : PermissionsDone(i)
    \/ \E u \in Principals, id \in AclIds, e \in BOOLEAN : Delete(u, id, e)
    \/ \E i \in DOMAIN inflight : DeleteDone(i)
    \/ \E u \in Principals, id \in AclIds, e \in BOOLEAN : ShareRead(u, id, e)
    \/ \E i \in DOMAIN inflight, e \in BOOLEAN : ShareSign(i, e)
    \/ \E i \in DOMAIN inflight : ShareDone(i)

SpecGate == Init /\ [][NextGate]_vars

\* Pagination as a function of (total, page, limit).
InitPage ==
    /\ files_folders = <<>>
    /\ storage = {}
    /\ permissions = EmptyBag
    /\ cache = <<>>
    /\ now = 0
    /\ snap = <<>>
    /\ inflight = <<>>
    /\ \E t \in 0..MaxTotal, p \in 1..MaxPage, l \in 1..MaxLimit :
          res = Resp("query", "u1", 0, 0, PageQuery(t, p, l))

NextPage == \E e \in BOOLEAN : Paginate(e)

SpecPage == InitPage /\ [][NextPage]_vars

\* Folders: no route creates a folder row; the table holds one, "docs" of
\* u1 with its marker object, as in the scenario of section 8 of the
\* specification. Files are uploaded into it or beside it.
FolderPath == Append(UserDir("u1"), Plain("docs"))

FolderRow ==
    [id |-> 1, user_id |-> "u1", name |-> "docs", path |-> FolderPath,
     type |-> "folder", parent_path |-> NullPath, is_deleted |-> FALSE]

InitFolder ==
    /\ files_folders = <<FolderRow>>
    /\ storage = {Append(FolderPath, Plain(".keep"))}
    /\ permissions = EmptyBag
    /\ cache = <<>>
    /\ now = 0
    /\ res = Resp("none", "", 0, 0, {})
    /\ snap = <<NoRow>>
    /\ inflight = <<>>

\* Deletes of the folder and of the files uploaded into it or beside it.
NextFolder ==
    \/ \E p \in {NullPath, FolderPath} : UploadSend("u1", "a.txt", p)
    \/ \E i \in DOMAIN inflight : UploadStore(i, FALSE)
    \/ \E i \in DOMAIN inflight : UploadStored(i)
    \/ \E i \in DOMAIN inflight : UploadInsert(i, FALSE)
    \/ \E i \in DOMAIN inflight : UploadDone(i)
    \/ \E u \in Principals, id \in FileIds, e \in BOOLEAN : Delete(u, id, e)
    \/ \E i \in DOMAIN inflight : DeleteDone(i)

SpecFolder == InitFolder /\ [][NextFolder]_vars

\* Share links of the folder and of the files, whose objects are renamed.
NextShare ==
    \/ \E p \in {NullPath, FolderPath} : UploadSend("u1", "a.txt", p)
    \/ \E i \in DOMAIN inflight : UploadStore(i, FALSE)
    \/ \E i \in DOMAIN inflight : UploadStored(i)
    \/ \E i \in DOMAIN inflight : UploadInsert(i, FALSE)
    \/ \E i \in DOMAIN inflight : UploadDone(i)
    \/ \E u \in Principals, id \in FileIds, e \in BOOLEAN : ShareRead(u, id, e)
    \/ \E i \in DOMAIN inflight, e \in BOOLEAN : ShareSign(i, e)
    \/ \E i \in DOMAIN inflight : ShareDone(i)
    \/ \E a \in RenameNames("u1"), b \in RenameNames("u1"), e \in BOOLEAN :
          Rename("u1", a, b, e)
    \/ \E i \in DOMAIN inflight : RenameDone(i)

SpecShare == InitFolder /\ [][NextShare]_vars

----------------------------------------------------------------------------
(* Claims *)

RowIds == 1..Len(files_folders)

IsOwner(u, fileId) == \E r \in Rows : r.id = fileId /\ r.user_id = u

HasGrant(u, fileId, roles) ==
    \E g \in DOMAIN permissions :
        g.file_id = fileId /\ g.user_id = u /\ g.role \in roles

\* a share whose select has passed the check `fileError || !fileData`
ShareFound(r) == ~r.err /\ r.data # {}

\* C1: a listing answered to a principal from the cache is the set of that
\* principal's live rows as the table holds them at the time of the answer,
\* so that no listing after a mutation returns the cached pre-mutation result.
C1_NoStaleListing ==
    [][\A u \in Principals :
          ( FilesSend(u) /\ CacheHit(CacheKeyFiles(u)) )
          => res'.body = LiveRowsOf(u)]_vars

\* C2: writing a grant (POST or PUT) on an existing node by a principal that
\* holds no owner privilege on it (neither the row's user_id nor an owner-role
\* grant) is rejected and leaves the grants unchanged.
C2_GrantWriteNeedsOwner ==
    [][\A u \in Principals, id \in RowIds, t \in TargetInputs, r \in RoleInputs :
          ( /\ \E e \in BOOLEAN : \/ PermissionsPost(u, id, t, r, e)
                                  \/ PermissionsPut(u, id, t, r, e)
            /\ ~IsOwner(u, id)
            /\ ~HasGrant(u, id, {"owner"}) )
          => /\ permissions' = permissions
             /\ IF inflight' = inflight
                THEN res'.status # 200
                ELSE PermissionsAnswer(Last(inflight')).status # 200]_vars

\* The decision of section 4.1: the owner, or a grant whose role meets the
\* requested privilege under owner > editor > viewer.
RolesAtLeast(priv) ==
    CASE priv = "owner" -> {"owner"}
      [] priv = "editor" -> {"owner", "editor"}
      [] OTHER -> {"owner", "editor", "viewer"}

Authorize(u, fileId, priv) ==
    IsOwner(u, fileId) \/ HasGrant(u, fileId, RolesAtLeast(priv))

RequestedPrivilege(op) == IF op = "share" THEN "viewer" ELSE "owner"

\* C3 as stated: when the table answers, the delete and share routes let a
\* principal through (do not answer NotFound) exactly when it is the node's
\* owner or holds a grant whose role meets the requested privilege.
C3_AuthorizeByGrant ==
    [][\A u \in Principals, id \in RowIds :
          /\ Delete(u, id, FALSE)
               => ( (DeleteAnswer(Last(inflight')).status # 404)
                    <=> Authorize(u, id, RequestedPrivilege("delete")) )
          /\ ShareRead(u, id, FALSE)
               => ( ShareFound(Last(inflight'))
                    <=> Authorize(u, id, RequestedPrivilege("share")) )]_vars

\* C3 (amended): the delete and share routes let a principal through exactly
\* when it is the node's owner and the table answers the request, whatever
\* grants exist; so a grantee (of role viewer or any other) is never let
\* through, and the owner is refused only when the table fails.
C3_AuthorizeOwnerOnly ==
    [][\A u \in Principals, id \in RowIds, e \in BOOLEAN :
          /\ Delete(u, id, e)
               => ( (DeleteAnswer(Last(inflight')).status # 404)
                    <=> (files_folders[id].user_id = u /\ ~e) )
          /\ ShareRead(u, id, e)
               => ( ShareFound(Last(inflight'))
                    <=> (files_folders[id].user_id = u /\ ~e) )]_vars

\* the delete of a principal holding an owner-role grant on the node has
\* run on a table that answered, and has matched no row
C3_Witness ==
    \E i \in DOMAIN inflight :
        /\ inflight[i].op = "delete"
        /\ inflight[i].pc = "updated"
        /\ ~inflight[i].err
        /\ inflight[i].data = {}
        /\ inflight[i].id \in RowIds
        /\ HasGrant(inflight[i].user, inflight[i].id, {"owner"})

\* C4: an upload whose path is that of a live node of the same owner is
\* rejected with Conflict (409) and adds no row; an upload whose path is only
\* that of a trashed node of the same owner succeeds and adds the row.
LivePathTaken(u, path) ==
    \E r \in Rows : r.user_id = u /\ ~r.is_deleted /\ r.path = path

TrashedPathTaken(u, path) ==
    \E r \in Rows : r.user_id = u /\ r.is_deleted /\ r.path = path

C4_CreateConflict ==
    [][/\ \A i \in DOMAIN inflight :
             UploadStore(i, FALSE) =>
               /\ LivePathTaken(inflight[i].user, inflight[i].row.path)
                    => /\ storage' = storage
                       /\ inflight'[i].err
                       /\ UploadAnswer(inflight'[i]).status = 409
               /\ (~LivePathTaken(inflight[i].user, inflight[i].row.path)
                     /\ TrashedPathTaken(inflight[i].user, inflight[i].row.path))
                    => ~inflight'[i].err
       /\ \A i \in DOMAIN inflight :
             UploadInsert(i, FALSE) =>
               IF LivePathTaken(inflight[i].user, inflight[i].row.path)
               THEN /\ files_folders' = files_folders
                    /\ UploadAnswer(inflight'[i]).status = 409
               ELSE /\ Len(files_folders') = Len(files_folders) + 1
                    /\ UploadAnswer(inflight'[i]).status = 200
       /\ \A i \in DOMAIN inflight :
             UploadStored(i) \/ UploadDone(i) =>
               \/ res' = UploadAnswer(inflight[i])
               \/ res' = res /\ ~inflight[i].err]_vars

\* C5: a soft-delete that the table carries out succeeds, setting is_deleted,
\* when a live row with the id is owned by the actor; in every other case it
\* is answered NotFound (404) and the table is unchanged.
C5_SoftDeleteLiveOwned ==
    [][\A u \in Principals, id \in FileIds :
          Delete(u, id, FALSE) =>
            IF \E r \in Rows : r.id = id /\ r.user_id = u /\ ~r.is_deleted
            THEN /\ DeleteAnswer(Last(inflight')).status = 200
                 /\ files_folders'[id].is_deleted
            ELSE /\ DeleteAnswer(Last(inflight')).status = 404
                 /\ files_folders' = files_folders]_vars

\* C6: a restore that the table carries out succeeds only when a trashed row
\* with the id is owned by the actor; in every other case it is answered
\* NotFound (404) and the table is unchanged.
C6_RestoreTrashedOwned ==
    [][\A u \in Principals, id \in FileIds :
          Restore(u, id, FALSE) =>
            IF \E r \in Rows : r.id = id /\ r.user_id = u /\ r.is_deleted
            THEN /\ RestoreAnswer(Last(inflight')).status = 200
                 /\ ~files_folders'[id].is_deleted
            ELSE /\ RestoreAnswer(Last(inflight')).status = 404
                 /\ files_folders' = files_folders]_vars

\* C7: a restore, carried out by the table, of a row that its owner had
\* trashed while it was live leaves the row equal to the row as it was before
\* the soft-delete: it is live again and id, user_id, name, path, type and
\* parent_path are the same; the restore is answered 200 with that row, and
\* no other row changes. A restore that the table fails changes no row.
C7_TrashRoundTrip ==
    [][\A u \in Principals, id \in RowIds :
          /\ ( /\ Restore(u, id, FALSE)
               /\ files_folders[id].user_id = u
               /\ files_folders[id].is_deleted
               /\ snap[id] # NoRow )
             => /\ files_folders'[id] = snap[id]
                /\ ~files_folders'[id].is_deleted
                /\ RestoreAnswer(Last(inflight')) = Resp("restore", u, id, 200, snap[id])
                /\ \A j \in RowIds : j # id => files_folders'[j] = files_folders[j]
          /\ Restore(u, id, TRUE)
             => /\ files_folders' = files_folders
                /\ RestoreAnswer(Last(inflight')).status = 404]_vars

\* a row uploaded into a folder was trashed by its owner and then restored:
\* the restore has been answered 200 and the row is as it was
C7_Witness ==
    /\ res.op = "restore" /\ res.status = 200
    /\ snap[res.id] # NoRow
    /\ snap[res.id].parent_path # NullPath
    /\ res.body = snap[res.id]
    /\ files_folders[res.id] = snap[res.id]

\* C8 as stated: when the table answers, the share route lets through
\* exactly the owner and the holders of a grant (viewer, editor or owner) on
\* the node.
C8_ShareByGrantHolder ==
    [][\A u \in Principals, id \in RowIds :
          ShareRead(u, id, FALSE)
          => ( ShareFound(Last(inflight'))
               <=> (IsOwner(u, id) \/ HasGrant(u, id, ValidRoles)) )]_vars

\* C8 (amended): the share route lets through only the node's owner. Every
\* other principal, grant holders included, is answered NotFound (404), and
\* so is the owner when the table fails. The owner that is let through is
\* answered a link (200) when the bucket signs the key of an object that
\* exists, and 500 otherwise.
C8_ShareOwnerOnly ==
    [][/\ \A u \in Principals, id \in RowIds, e \in BOOLEAN :
             ShareRead(u, id, e)
             => ( ShareFound(Last(inflight')) <=> (IsOwner(u, id) /\ ~e) )
       /\ \A i \in DOMAIN inflight, e \in BOOLEAN :
             ShareSign(i, e) =>
               IF ShareFound(inflight[i])
               THEN /\ res' = res
                    /\ inflight'[i].err
                         <=> (e \/ inflight'[i].key \notin storage)
               ELSE /\ res'.status = 404
                    /\ res'.user = inflight[i].user
       /\ \A i \in DOMAIN inflight :
             ShareDone(i) =>
               /\ res'.user = inflight[i].user
               /\ res'.status = (IF inflight[i].err THEN 500 ELSE 200)]_vars

\* the owner was answered a share link for the node, and the select of a
\* holder of a viewer grant on the same node, on a table that answered, has
\* found nothing
C8_Witness ==
    /\ res.op = "share" /\ res.status = 200
    /\ IsOwner(res.user, res.id)
    /\ \E i \in DOMAIN inflight :
          /\ inflight[i].op = "share"
          /\ inflight[i].pc = "selected"
          /\ inflight[i].id = res.id
          /\ ~inflight[i].err
          /\ inflight[i].data = {}
          /\ HasGrant(inflight[i].user, res.id, {"viewer"})

\* C9: a grant creation or update whose role is not owner, editor or viewer,
\* or whose target principal is missing, is answered InvalidInput (400) at
\* once and leaves the stored grants unchanged.
C9_InvalidGrantRejected ==
    [][\A u \in Principals, id \in DOMAIN files_folders, t \in AclTargets,
          r \in AclRoles, e \in BOOLEAN :
          ( /\ (t = "" \/ r \notin {"owner", "editor", "viewer"})
            /\ PermissionsPost(u, id, t, r, e) \/ PermissionsPut(u, id, t, r, e) )
          => /\ res'.status = 400
             /\ res'.user = u
             /\ permissions' = permissions
             /\ inflight' = inflight]_vars

\* an update to role "admin" of a pair that has a grant was answered 400
C9_Witness ==
    /\ res.op = "permPut" /\ res.status = 400
    /\ res.body.role = "admin"
    /\ GrantMatch(res.body.file_id, res.body.user_id) # {}

\* C10: the table holds at most one grant per (file_id, user_id), and a grant
\* creation for a pair that has one leaves exactly one grant for the pair,
\* with the requested role.
OneGrantPerPair(perms) ==
    \A g \in DOMAIN perms :
        /\ perms[g] = 1
        /\ \A h \in DOMAIN perms :
              (h.file_id = g.file_id /\ h.user_id = g.user_id) => h = g

C10_GrantCreateUpdates ==
    [][/\ OneGrantPerPair(permissions')
       /\ \A u \in Principals, id \in FileIds, t \in Principals, r \in ValidRoles :
             ( /\ \E e \in BOOLEAN : PermissionsPost(u, id, t, r, e)
               /\ GrantMatch(id, t) # {} )
             => (/\ Grant(id, t, r) \in DOMAIN permissions'
                 /\ \A g \in DOMAIN permissions' :
                       (g.file_id = id /\ g.user_id = t) => g = Grant(id, t, r))]_vars

Min(a, b) == IF a < b THEN a ELSE b

\* C11: for page >= 1 and page size >= 1 over total matching records, the
\* response has totalPages = ceil(total / limit) (the least n with
\* n * limit >= total) and its items are the records at the 1-based positions
\* (page-1)*limit + 1 .. min((page-1)*limit + limit, total), in order; 25
\* records of page size 10 give 3 pages and page 3 holds records 21..25.
C11_Pagination ==
    (res.op = "search" /\ res.status = 200) =>
        LET b == res.body
            offset == (b.page - 1) * b.limit
            last == Min(offset + b.limit, b.total)
        IN /\ b.totalPages * b.limit >= b.total
           /\ (b.totalPages - 1) * b.limit < b.total
           /\ b.totalPages >= 0
           /\ Len(b.items) = (IF last > offset THEN last - offset ELSE 0)
           /\ \A j \in 1..Len(b.items) : b.items[j] = offset + j
           /\ (b.total = 25 /\ b.limit = 10) => b.totalPages = 3
           /\ (b.total = 25 /\ b.limit = 10 /\ b.page = 3)
                 => b.items = <<21, 22, 23, 24, 25>>

\* page 3 of 25 records with page size 10 was answered
C11_Witness ==
    /\ res.op = "search" /\ res.status = 200
    /\ res.body.total = 25 /\ res.body.limit = 10 /\ res.body.page = 3
    /\ Len(res.body.items) = 5

\* C12: the key handed to the object store for a share link is the row's
\* path itself for a file and the row's path followed by "/.keep" for a
\* folder; the store signs it only while it holds an object, and the link
\* answered is the link of that key and of no other.
C12_ShareKeyResolved ==
    [][/\ \A i \in DOMAIN inflight, e \in BOOLEAN :
             ( ShareSign(i, e) /\ ShareFound(inflight[i]) ) =>
               LET r == files_folders[inflight[i].id]
               IN /\ r.type = "file" => inflight'[i].key = r.path
                  /\ r.type = "folder" => inflight'[i].key = r.path \o <<<<-1, ".keep">>>>
                  /\ ~inflight'[i].err => inflight'[i].key \in storage
       /\ \A i \in DOMAIN inflight :
             ShareDone(i) =>
               /\ res'.id = inflight[i].id
               /\ res'.body = inflight[i].key
               /\ res'.status = 200 => ~inflight[i].err]_vars

\* the owner was answered a share link for the folder's marker object while
\* the table holds a file as well
C12_Witness ==
    /\ res.op = "share" /\ res.status = 200
    /\ files_folders[res.id].type = "folder"
    /\ res.body = files_folders[res.id].path \o <<<<-1, ".keep">>>>
    /\ \E x \in RowIds : files_folders[x].type = "file"

\* C13: no two live rows of the same owner have the same path.
C13_LivePathUnique ==
    \A i \in RowIds, j \in RowIds :
        ( /\ i # j
          /\ files_folders[i].user_id = files_folders[j].user_id
          /\ ~files_folders[i].is_deleted
          /\ ~files_folders[j].is_deleted )
        => files_folders[i].path # files_folders[j].path

\* C19: the path of every file row is the key of an object of the bucket.
C19_FileRowHasObject ==
    \A i \in RowIds :
        files_folders[i].type = "file" => files_folders[i].path \in storage

\* C18: a rename of the object of a trashed node is rejected, and a rename
\* onto the path of a live node of the same owner is rejected as well; in both
\* cases the rows and the bucket stay as they were.
C18_RenameLiveFree ==
    [][\A u \in Principals : \A a \in RenameNames(u), b \in RenameNames(u) :
          (\E e \in BOOLEAN : Rename(u, a, b, e)) =>
            /\ ( TrashedPathTaken(u, RenameKey(u, a)) /\ ~LivePathTaken(u, RenameKey(u, a)) )
                 => ( RenameAnswer(Last(inflight')).status # 200 /\ storage' = storage
                      /\ files_folders' = files_folders )
            /\ LivePathTaken(u, RenameKey(u, b))
                 => ( RenameAnswer(Last(inflight')).status # 200 /\ storage' = storage
                      /\ files_folders' = files_folders )]_vars

\* C17: a delete of a folder row changes no other row, those filed under the
\* folder included, and changes of the folder row its is_deleted only; a
\* delete that is to be answered 200 has set it.
C17_FolderDeleteNoCascade ==
    [][\A u \in Principals, id \in FileIds, e \in BOOLEAN :
          ( /\ id \in RowIds
            /\ files_folders[id].type = "folder"
            /\ Delete(u, id, e) )
          => /\ Len(files_folders') = Len(files_folders)
             /\ \A j \in RowIds : j # id => files_folders'[j] = files_folders[j]
             /\ files_folders'[id] \in
                   {files_folders[id], [files_folders[id] EXCEPT !.is_deleted = TRUE]}
             /\ DeleteAnswer(Last(inflight')).status = 200
                   => /\ files_folders'[id].is_deleted
                      /\ files_folders[id].user_id = u
                      /\ ~e]_vars

\* a folder has been trashed, and its delete answered 200, while a live file
\* is filed under it
C17_Witness ==
    /\ res.op = "delete"
    /\ res.status = 200
    /\ res.id \in RowIds
    /\ files_folders[res.id].type = "folder"
    /\ files_folders[res.id].is_deleted
    /\ \E j \in RowIds :
          /\ files_folders[j].parent_path = files_folders[res.id].path
          /\ ~files_folders[j].is_deleted

\* C16: an entry expires stdTTL after its insertion, and a hit leaves it
\* as it is. A listing or search that finds the entry of its key expired is
\* not answered from it: the entry is dropped and the request goes to the
\* table; one that finds it unexpired is answered from it and leaves the
\* cache, expiry included, unchanged. The entry a listing or search stores
\* expires stdTTL from the time it is stored, and no entry leaves the cache
\* before it has expired.
C16_FixedTtl ==
    [][/\ \A u \in Principals :
             /\ ( FilesSend(u) /\ CacheKeyFiles(u) \in DOMAIN cache ) =>
                   IF now > cache[CacheKeyFiles(u)].t
                   THEN /\ res' = res
                        /\ Len(inflight') = Len(inflight) + 1
                        /\ Last(inflight').op = "files"
                        /\ Last(inflight').pc = "sent"
                        /\ CacheKeyFiles(u) \notin DOMAIN cache'
                   ELSE /\ res'.body = cache[CacheKeyFiles(u)].v
                        /\ inflight' = inflight
                        /\ cache' = cache
             /\ ( SearchSend(u, "a", 1, 1)
                   /\ CacheKeySearch(u, "a", 1, 1) \in DOMAIN cache ) =>
                   IF now > cache[CacheKeySearch(u, "a", 1, 1)].t
                   THEN /\ res' = res
                        /\ Len(inflight') = Len(inflight) + 1
                        /\ Last(inflight').op = "search"
                        /\ Last(inflight').pc = "sent"
                        /\ CacheKeySearch(u, "a", 1, 1) \notin DOMAIN cache'
                   ELSE /\ res'.body = cache[CacheKeySearch(u, "a", 1, 1)].v
                        /\ inflight' = inflight
                        /\ cache' = cache
       /\ \A i \in DOMAIN inflight :
             /\ ( FilesDone(i) /\ ~inflight[i].err ) =>
                   cache'[CacheKeyFiles(inflight[i].user)] =
                       [v |-> inflight[i].data, t |-> now + stdTTL]
             /\ ( SearchDone(i) /\ ~inflight[i].err ) =>
                   cache'[CacheKeySearch(inflight[i].user, "a", 1, 1)] =
                       [v |-> inflight[i].data, t |-> now + stdTTL]
       /\ \A k \in DOMAIN cache :
             IF k \in DOMAIN cache'
             THEN cache'[k] # cache[k] => cache'[k].t = now + stdTTL
             ELSE cache[k].t < now
       /\ \A k \in (DOMAIN cache') \ (DOMAIN cache) : cache'[k].t = now + stdTTL]_vars

\* a listing has found the entry of its key expired, which cache.get has
\* dropped, and has read the table
C16_Witness ==
    \E i \in DOMAIN inflight :
        /\ inflight[i].op = "files"
        /\ inflight[i].pc = "read"
        /\ ~inflight[i].err
        /\ inflight[i].expired
        /\ CacheKeyFiles(inflight[i].user) \notin DOMAIN cache
        /\ now > stdTTL

\* C20: the rows of a listing or search answered to a principal, from the
\* table or from the cache, are all owned by that principal.
C20_OwnRowsOnly ==
    /\ ( res.op = "files" /\ res.status = 200 )
         => \A r \in res.body : r.user_id = res.user
    /\ ( res.op = "search" /\ res.status = 200 )
         => \A i \in 1..Len(res.body.items) : res.body.items[i].user_id = res.user

\* a search is answered with rows, after the entries of the first window
\* have expired, while the cache holds the answer to the same query for this
\* principal and, with other rows, for another one
C20_Witness ==
    /\ res.op = "search"
    /\ res.status = 200
    /\ Len(res.body.items) > 0
    /\ now > stdTTL
    /\ \E other \in Principals \ {res.user}, q \in SearchQueries :
          /\ CacheKeySearch(res.user, q, 1, 1) \in DOMAIN cache
          /\ cache[CacheKeySearch(res.user, q, 1, 1)].v = res.body
          /\ cache[CacheKeySearch(res.user, q, 1, 1)].t = now + stdTTL
          /\ CacheKeySearch(other, q, 1, 1) \in DOMAIN cache
          /\ Len(cache[CacheKeySearch(other, q, 1, 1)].v.items) > 0

\* C14: of two requests that delete or rename the same live node of one
\* principal and were in flight together, exactly one is answered 200.
C14_OneRacerSucceeds ==
    [][\A i \in DOMAIN inflight :
          ( DeleteDone(i) \/ RenameDone(i) )
          => \A status \in inflight[i].rival : (status = 200) # (res'.status = 200)]_vars

\* C15: the result that a listing or search stores in the cache is the
\* result the table gives at that time: a result read before a mutation that
\* has since been answered is not stored.
C15_NoResurrection ==
    [][\A i \in DOMAIN inflight :
          /\ ( FilesDone(i) /\ CacheKeyFiles(inflight[i].user) \in DOMAIN cache' )
               => cache'[CacheKeyFiles(inflight[i].user)].v = LiveRowsOf(inflight[i].user)
          /\ ( SearchDone(i) /\ ~inflight[i].err )
               => inflight[i].data =
                    SearchResponse(SearchMatches(inflight[i].user, inflight[i].q),
                                   inflight[i].page, inflight[i].limit)]_vars

====
